---- MODULE Spec2Model ----
(***************************************************************************)
(* A model of the syllable counter of src/lib.rs: the Counter engine       *)
(* (dictionary, cache, count, cached_count) and the heuristic              *)
(* get_syllable_count.                                                     *)
(*                                                                         *)
(* A string is a sequence of Unicode scalar values (natural numbers), so   *)
(* that trimming, lower-casing, UTF-8 encoding and the byte-wise           *)
(* validation are computed as the standard library computes them.          *)
(***************************************************************************)
EXTENDS Integers, Sequences, FiniteSets, TLC

\* ------------------------------------------------------------------ bounds
\* Most punctuation characters put before, and after, a raw input.
MaxPad == 1
\* Number of count calls explored in one behaviour.
MaxCalls == 2
\* Longest word handed to get_syllable_count on its own.
MaxWordLen == 5

\* usize is pointer-sized; the narrowest width a Rust target has is 16 bits.
\* Every word of the model is far shorter than 2^16.
UsizeBits == 16

UsizeModulus == 2 ^ UsizeBits

\* ------------------------------------------------------------------ inputs
\* The raw inputs of Counter::count: every core below, with up to MaxPad
\* punctuation characters before it and up to MaxPad after it.
Cores ==
    { <<>>,                    \* ""
      <<32>>,                  \* " "
      <<48>>,                  \* "0"
      <<233>>,                 \* U+00E9
      <<101, 48>>,             \* "e0"
      <<101, 58, 101>>,        \* "e:e"
      <<101, 233>>,            \* "e" U+00E9
      <<101>>,                 \* "e"
      <<69>>,                  \* "E"
      <<108>>,                 \* "l"
      <<101, 108>>,            \* "el"
      <<69, 76>>,              \* "EL"
      <<108, 101>>,            \* "le"
      <<101, 108, 101>>,       \* "ele"
      <<122, 108, 101>>,       \* "zle"
      <<90, 108, 69>>,         \* "ZlE"
      <<91, 101, 108, 125>>,   \* "[el}"
      <<97, 108, 97>>,         \* "ala"
      <<97, 76, 97>>,          \* "aLa"
      <<97, 98, 108, 101>> }   \* "able"

\* '!'.
PadAlphabet == {33}

\* 'a', 'e', 'l', 't', 'y': the words handed to get_syllable_count on its own.
WordAlphabet == {97, 101, 108, 116, 121}

Strings(S, n) == UNION {[1..k -> S] : k \in 0..n}

Pads == Strings(PadAlphabet, MaxPad)

RawInputs == {pre \o core \o post : pre \in Pads, core \in Cores, post \in Pads}

Words == Strings(WordAlphabet, MaxWordLen) \ {<<>>}

\* ------------------------------------------------------- std: char and str
\* char::is_ascii_punctuation
is_ascii_punctuation(u) ==
    \/ u \in 33..47
    \/ u \in 58..64
    \/ u \in 91..96
    \/ u \in 123..126

\* u8::is_ascii_alphabetic
is_ascii_alphabetic(b) == b \in 65..90 \/ b \in 97..122

\* str::trim_matches with the closure |u| u.is_ascii_punctuation(): the
\* longest prefix and the longest suffix of matching characters are removed.
RECURSIVE trim_start(_)
trim_start(s) ==
    IF s # <<>> /\ is_ascii_punctuation(Head(s)) THEN trim_start(Tail(s)) ELSE s

RECURSIVE trim_end(_)
trim_end(s) ==
    IF s # <<>> /\ is_ascii_punctuation(s[Len(s)])
    THEN trim_end(SubSeq(s, 1, Len(s) - 1))
    ELSE s

trim_matches(s) == trim_end(trim_start(s))

\* str::to_ascii_lowercase: 'A'..'Z' map to 'a'..'z', all else is unchanged.
to_ascii_lowercase(s) ==
    [i \in 1..Len(s) |-> IF s[i] \in 65..90 THEN s[i] + 32 ELSE s[i]]

\* The UTF-8 encoding of one scalar value (str::bytes yields these).
Utf8(c) ==
    IF c < 128 THEN <<c>>
    ELSE IF c < 2048 THEN <<192 + (c \div 64), 128 + (c % 64)>>
    ELSE IF c < 65536
         THEN <<224 + (c \div 4096), 128 + ((c \div 64) % 64), 128 + (c % 64)>>
         ELSE <<240 + (c \div 262144), 128 + ((c \div 4096) % 64),
                128 + ((c \div 64) % 64), 128 + (c % 64)>>

RECURSIVE bytes(_)
bytes(s) == IF s = <<>> THEN <<>> ELSE Utf8(Head(s)) \o bytes(Tail(s))

\* str::len is the length in bytes.
str_len(s) == Len(bytes(s))

ends_with(s, suffix) ==
    /\ Len(s) >= Len(suffix)
    /\ SubSeq(s, Len(s) - Len(suffix) + 1, Len(s)) = suffix

\* -------------------------------------------------- get_syllable_count
is_vowel(u) == u \in {97, 101, 105, 111, 117, 121}

\* The running state of get_syllable_count: the counter, and whether the
\* function has panicked.
HState(n, p) == [count |-> n, panic |-> p]

\* usize subtraction: with overflow checks (debug profile) a - b panics when
\* a < b; without them (release profile) it wraps modulo 2^w.
usize_sub(a, b, checks) ==
    IF a >= b THEN HState(a - b, FALSE)
    ELSE IF checks THEN HState(0, TRUE)
    ELSE HState((a - b) % UsizeModulus, FALSE)

\* StepFirst with the first-character check left out.
StepFirstSkipped(word) == HState(0, Len(word) = 0)

\* let mut syllable_count = 0; if is_vowel(characters[0]) { += 1 }
StepFirst(word) ==
    IF Len(word) = 0 THEN HState(0, TRUE)
    ELSE HState(IF is_vowel(word[1]) THEN 1 ELSE 0, FALSE)

\* WindowHits counting every vowel after the first character.
WindowHitsEveryVowel(word) == {i \in 1..(Len(word) - 1) : is_vowel(word[i + 1])}

\* for window in characters.windows(2) { if is_vowel(right) && !is_vowel(left) }
WindowHits(word) ==
    {i \in 1..(Len(word) - 1) : is_vowel(word[i + 1]) /\ ~is_vowel(word[i])}

StepScan(word, st) ==
    IF st.panic THEN st
    ELSE HState(st.count + Cardinality(WindowHits(word)), FALSE)

\* if word.ends_with('e') { syllable_count -= 1; }
StepSilentE(word, st, checks) ==
    IF st.panic THEN st
    ELSE IF ends_with(word, <<101>>) THEN usize_sub(st.count, 1, checks)
    ELSE st

\* characters[word.len() - 4]: the subtraction, then the bounds-checked index
\* (0-based) into the Vec<char>. A record [panic, ch].
LeProbe(word, checks) ==
    LET idx == usize_sub(str_len(word), 4, checks)
    IN  IF idx.panic \/ idx.count >= Len(word)
        THEN [panic |-> TRUE, ch |-> 0]
        ELSE [panic |-> FALSE, ch |-> word[idx.count + 1]]

\* if word.ends_with("le") && word.len() > 2 && !is_vowel(characters[..]) { += 1 }
StepLe(word, st, checks) ==
    IF st.panic THEN st
    ELSE IF ends_with(word, <<108, 101>>) /\ str_len(word) > 2
    THEN LET probe == LeProbe(word, checks)
         IN  IF probe.panic THEN HState(st.count, TRUE)
             ELSE IF ~is_vowel(probe.ch) THEN HState(st.count + 1, FALSE)
             ELSE st
    ELSE st

\* cmp::max(1, syllable_count)
StepClamp(st) ==
    IF st.panic THEN st
    ELSE HState(IF st.count > 1 THEN st.count ELSE 1, FALSE)

get_syllable_count(word, checks) ==
    StepClamp(StepLe(word,
                     StepSilentE(word, StepScan(word, StepFirst(word)), checks),
                     checks))

\* ------------------------------------------------------------- Counter
\* HashMap::new(): the empty map.
NoData == [w \in {} |-> 0]

\* The contents of data::SYLLABLE_DATA: lower-case words with positive counts,
\* either none or "el" -> 2 and "ele" -> 3. The heuristic gives 1 for "el"
\* and panics on "ele".
SomeData == [w \in {<<101, 108>>, <<101, 108, 101>>} |-> Len(w)]

SYLLABLE_DATA == {NoData, SomeData}

\* Two Counter instances built from the same data.
Engines == {1, 2}

\* What a call produced: a returned usize, or a panic.
Returned(n) == [kind |-> "return", value |-> n]

Panicked == [kind |-> "panic", value |-> 0]

\* Option<usize>, with the map that answered.
Some(n, from) == [some |-> TRUE, value |-> n, from |-> from]

None == [some |-> FALSE, value |-> 0, from |-> "none"]

\* normalize trimming the front only.
normalize_front_only(raw) == to_ascii_lowercase(trim_start(raw))

\* word.trim_matches(|u: char| u.is_ascii_punctuation()).to_ascii_lowercase()
normalize(raw) == to_ascii_lowercase(trim_matches(raw))

\* word.is_empty() || word.bytes().any(|u| !u.is_ascii_alphabetic())
any_not_alphabetic(bs) == \E i \in 1..Len(bs) : ~is_ascii_alphabetic(bs[i])

\* is_rejected without the byte check.
is_rejected_empty_only(w) == w = <<>>

is_rejected(w) == w = <<>> \/ any_not_alphabetic(bytes(w))

\* cached_count looking in the cache alone.
cached_count_cache_only(dict, c, w) ==
    IF w \in DOMAIN c THEN Some(c[w], "cache") ELSE None

\* self.dictionary.get(word).or_else(|| self.cache.get(word)).copied()
cached_count(dict, c, w) ==
    IF w \in DOMAIN dict THEN Some(dict[w], "dictionary")
    ELSE IF w \in DOMAIN c THEN Some(c[w], "cache")
    ELSE None

\* insert storing one more than the count it is given.
insert_one_more(c, w, n) ==
    [k \in (DOMAIN c) \cup {w} |-> IF k = w THEN n + 1 ELSE c[k]]

\* HashMap::insert: the key is added, or its value replaced.
insert(c, w, n) == [k \in (DOMAIN c) \cup {w} |-> IF k = w THEN n ELSE c[k]]

\* Counter::count on an engine with dictionary dict and cache c: the outcome,
\* the cache afterwards, the normalized word and the path taken.
count(dict, c, raw, checks) ==
    LET w == normalize(raw)
    IN  IF is_rejected(w)
        THEN [outcome |-> Returned(0), cache |-> c, word |-> w, path |-> "rejected"]
        ELSE LET known == cached_count(dict, c, w)
             IN  IF known.some
                 THEN [outcome |-> Returned(known.value), cache |-> c,
                       word |-> w, path |-> known.from]
                 ELSE LET h == get_syllable_count(w, checks)
                      IN  IF h.panic
                          THEN [outcome |-> Panicked, cache |-> c,
                                word |-> w, path |-> "panic"]
                          ELSE [outcome |-> Returned(h.count),
                                cache |-> insert(c, w, h.count),
                                word |-> w, path |-> "heuristic"]

VARIABLES dictionary, cache, calls, last, returned, overflow_checks, word,
          syllable_count, pc

vars == <<dictionary, cache, calls, last, returned, overflow_checks, word,
          syllable_count, pc>>

evars == <<dictionary, cache, calls, last, returned>>

hvars == <<word, syllable_count, pc>>

\* ------------------------------------------------------------ observer
\* What the caller can tell of a raw input without running the code: the
\* word between the first and the last character that is no ASCII
\* punctuation mark, with its letters in lower case.
PunctuationMarks ==
    {33, 34, 35, 36, 37, 38, 39, 40, 41, 42, 43, 44, 45, 46, 47, 58, 59, 60,
     61, 62, 63, 64, 91, 92, 93, 94, 95, 96, 123, 124, 125, 126}

Between(raw, keep) ==
    IF keep = {} THEN <<>>
    ELSE SubSeq(raw,
                CHOOSE i \in keep : \A j \in keep : i <= j,
                CHOOSE i \in keep : \A j \in keep : i >= j)

Inner(raw) == Between(raw, {i \in 1..Len(raw) : raw[i] \notin PunctuationMarks})

IsLetter(c) == c \in 65..90 \/ c \in 97..122

AllLetters(s) == s # <<>> /\ \A i \in 1..Len(s) : IsLetter(s[i])

Lowered(s) == [i \in 1..Len(s) |-> IF s[i] <= 90 THEN s[i] + 32 ELSE s[i]]

IsWord(raw) == AllLetters(Inner(raw))

Key(raw) == IF IsWord(raw) THEN Lowered(Inner(raw)) ELSE <<>>

FormOf(raw, inner) ==
    IF inner = <<>> THEN "empty"
    ELSE IF ~AllLetters(inner)
    THEN (IF \E i \in 1..Len(inner) : inner[i] \in PunctuationMarks
          THEN "interior" ELSE "nonalpha")
    ELSE IF raw = Lowered(inner) THEN "exact" ELSE "decorated"

Form(raw) == FormOf(raw, Inner(raw))

Seen == [raw \in RawInputs |-> [valid |-> IsWord(raw), key |-> Key(raw), form |-> Form(raw)]]

\* What the observer keeps of a call: the engine, the input's key and form,
\* the path count took and its outcome.
Observed(e, raw, r) ==
    [engine |-> e, valid |-> Seen[raw].valid, key |-> Seen[raw].key,
     form |-> Seen[raw].form, path |-> r.path, outcome |-> r.outcome]

NoCall ==
    [engine |-> 0, valid |-> FALSE, key |-> <<>>, form |-> "none",
     path |-> "none", outcome |-> Returned(0)]

\* ------------------------------------------------------ Counter, actions
\* Counter::new: the dictionary collected from the data, an empty cache.
Init ==
    /\ dictionary \in SYLLABLE_DATA
    /\ cache = [e \in Engines |-> NoData]
    /\ calls = 0
    /\ last = NoCall
    /\ returned = {}
    /\ overflow_checks \in BOOLEAN
    /\ word = <<>>
    /\ syllable_count = 0
    /\ pc = "idle"

\* One call of Counter::count on engine e. A panic unwinds before the
\* insertion, so it leaves the cache as it was.
Count(e, raw) ==
    /\ calls < MaxCalls
    /\ \E r \in {count(dictionary, cache[e], raw, overflow_checks)} :
          /\ cache' = [cache EXCEPT ![e] = r.cache]
          /\ last' = Observed(e, raw, r)
          /\ returned' = returned \cup {last'}
    /\ calls' = calls + 1
    /\ UNCHANGED <<dictionary, overflow_checks, hvars>>

Next == \E e \in Engines, raw \in RawInputs : Count(e, raw)

Spec == Init /\ [][Next]_vars

\* ------------------------------------- get_syllable_count, step by step
\* One run of get_syllable_count on a word, a statement at a time;
\* syllable_count is the local of that name, and the value returned once
\* pc = "done".
HInit ==
    /\ overflow_checks \in BOOLEAN
    /\ word \in Words
    /\ syllable_count = 0
    /\ pc = "first"
    /\ dictionary = NoData
    /\ cache = [e \in Engines |-> NoData]
    /\ calls = 0
    /\ last = NoCall
    /\ returned = {}

HStep(from, st, to) ==
    /\ pc = from
    /\ syllable_count' = st.count
    /\ pc' = IF st.panic THEN "panicked" ELSE to
    /\ UNCHANGED <<overflow_checks, word, evars>>

HFirst == HStep("first", StepFirst(word), "scan")

HScan == HStep("scan", StepScan(word, HState(syllable_count, FALSE)), "silent_e")

HSilentE ==
    HStep("silent_e",
          StepSilentE(word, HState(syllable_count, FALSE), overflow_checks), "le")

HLe == HStep("le", StepLe(word, HState(syllable_count, FALSE), overflow_checks), "clamp")

HClamp == HStep("clamp", StepClamp(HState(syllable_count, FALSE)), "done")

HNext == HFirst \/ HScan \/ HSilentE \/ HLe \/ HClamp

SpecHeuristic == HInit /\ [][HNext]_vars
\* ------------------------------------------------------------- claims
\* The vowels of the heuristic, and the number of vowel-cluster starts of w:
\* the positions holding a vowel whose predecessor, if any, is no vowel.
Vowels == {97, 101, 105, 111, 117, 121}

ClusterStarts(w) ==
    Cardinality({i \in 1..Len(w) : w[i] \in Vowels /\ (i = 1 \/ w[i - 1] \notin Vowels)})

EndsE(w) == Len(w) >= 1 /\ w[Len(w)] = 101

EndsLe(w) == Len(w) >= 2 /\ w[Len(w) - 1] = 108 /\ w[Len(w)] = 101

AtLeastOne(n) == IF n >= 1 THEN n ELSE 1

\* The -le restoration as stated: the word ends with "le", is longer than 2,
\* and the character before the suffix (0-based index length-3) is no vowel.
LeRestores(w) == EndsLe(w) /\ Len(w) > 2 /\ w[Len(w) - 2] \notin Vowels

Rejections == {"empty", "interior", "nonalpha"}

\* C1: every call of count returns a value >= 0; no call panics.
C1_CountIsTotal == last.outcome.kind = "return" /\ last.outcome.value >= 0

\* C2: an input that is empty or holds a non-letter after trimming and
\* lower-casing makes count return 0 without looking at dictionary or cache.
C2_RejectedReturnsZero ==
    last.form \in Rejections => last.outcome = Returned(0) /\ last.path = "rejected"

C2_Witness ==
    /\ last.form = "nonalpha"
    /\ last.outcome = Returned(0)
    /\ cache[last.engine] # NoData

\* C3: for every valid word count returns a result >= 1.
C3_MinimumOne ==
    last.valid => last.outcome.kind = "return" /\ last.outcome.value >= 1

\* C4: a word that is a key of the dictionary with count K makes count
\* return K, whatever the cache holds and whatever the heuristic would give.
C4_DictionaryPrecedence ==
    (last.valid /\ last.key \in DOMAIN dictionary)
        => /\ last.outcome = Returned(dictionary[last.key])
           /\ last.path = "dictionary"

C4_Witness ==
    /\ last.path = "dictionary"
    /\ last.key = <<101, 108, 101>>
    /\ last.outcome = Returned(3)
    /\ cache[last.engine] # NoData

C6_NormalizationInvariant ==
    /\ \A a \in returned : \A b \in returned :
          (a.form = "exact" /\ b.form = "decorated" /\ a.key = b.key)
          => a.outcome = b.outcome
    /\ \A a \in returned : a.form = "interior" => a.outcome = Returned(0)

C6_Witness ==
    /\ last.form = "exact"
    /\ last.path = "cache"
    /\ \E b \in returned :
          b.form = "decorated" /\ b.key = last.key /\ b.path = "heuristic"

\* C7: after the -le step the count is the number of vowel-cluster starts,
\* less 1 for a final 'e', plus 1 exactly when LeRestores holds.
C7_LeRestoration ==
    pc = "clamp"
        => syllable_count = ClusterStarts(word) - (IF EndsE(word) THEN 1 ELSE 0)
                              + (IF LeRestores(word) THEN 1 ELSE 0)

\* C8: for a word that does not end in "le", get_syllable_count returns
\* max(1, S - E): S the vowel-cluster starts, E 1 for a final 'e', else 0.
C8_ClusterCount ==
    (~EndsLe(word) /\ pc \in {"done", "panicked"})
        => /\ pc = "done"
           /\ syllable_count =
                AtLeastOne(ClusterStarts(word) - (IF EndsE(word) THEN 1 ELSE 0))

C8_Witness ==
    /\ pc = "done"
    /\ EndsE(word) /\ ~EndsLe(word)
    /\ syllable_count = 2

\* C9: a call changes no cache but its engine's, changes that one only on a
\* double miss of a valid word, and then adds exactly the entry for the key
\* with the returned count; the dictionary never changes.
C9_CacheAppendOnly ==
    [][calls' = calls + 1 =>
        /\ dictionary' = dictionary
        /\ \A e \in Engines :
              IF /\ e = last'.engine
                 /\ last'.valid
                 /\ last'.key \notin DOMAIN dictionary
                 /\ last'.key \notin DOMAIN cache[e]
              THEN /\ DOMAIN cache'[e] = DOMAIN cache[e] \cup {last'.key}
                   /\ \A k \in DOMAIN cache[e] : cache'[e][k] = cache[e][k]
                   /\ last'.outcome = Returned(cache'[e][last'.key])
              ELSE cache'[e] = cache[e]]_vars

\* C10: when the silent-e decrement runs, the count is at least 1.
C10_NoUnderflow ==
    (pc = "silent_e" /\ EndsE(word)) => syllable_count >= 1

C10_Witness ==
    /\ pc = "silent_e"
    /\ word = <<101>>
    /\ syllable_count = 1
====
